---- MODULE Spec2Model ----
(***************************************************************************)
(* Model of the Bambu Plate Analyzer integration:                          *)
(*   - compute_bounding_boxes  (sensor.py 24-75), the pixel scan,          *)
(*   - convert_to_jpeg         (sensor.py 78-90), up to the RGB raster     *)
(*                              handed to the JPEG encoder,                *)
(*   - BambuPlateAnalyzerSensor (sensor.py 103-334), the coordinator,      *)
(*   - BambuPlateAnalyzerImage  (image.py 26-94), the image entity.        *)
(*                                                                         *)
(* Text (identifiers, names, bbox_data) is a sequence of one-character     *)
(* strings, so that formatting and parsing are computed, not assumed.      *)
(* A pixel is the tuple of its bands (RGBA: <<r, g, b, a>>).               *)
(***************************************************************************)
EXTENDS Integers, Sequences, FiniteSets, TLC

\* ------------------------------------------------------------------ bounds

\* Largest number of pixels (width * height) of an enumerated raster.
MaxPixels == 4

\* Number of analysis passes (printable-objects signals) in one behaviour.
MaxPasses == 2

\* Largest reading of the clock.
MaxClock == 2

\* Number of calls of compute_bounding_boxes made one after the other.
MaxCalls == 3

\* Number of state_changed events delivered to the sensor's handlers.
MaxEvents == 3

\* ------------------------------------------------------------------ state

\* compute_bounding_boxes: the raster, the loop position, the locals.
VARIABLES image, sx, sy, bboxes, seen_colors, scan_pc, result

\* convert_to_jpeg: the opened image, the RGB raster, the encoded bytes.
VARIABLES jpg_image, jpg_raster, jpg_bytes, jpg_pc

\* BambuPlateAnalyzerSensor: _object_count, _objects, _image_width,
\* _image_height, and the state it last wrote to the host.
VARIABLES object_count, objects, image_width, image_height, published

\* The cache slot hass.data[DOMAIN][entry_id]: jpeg_bytes and jpeg_updated.
VARIABLES jpeg_bytes, jpeg_updated

\* The running _process_plate_data coroutines: where each one is, and its
\* locals objects_attr and image_bytes.
VARIABLES pc, objects_attr, image_bytes

\* The last reading of the clock, and the state_changed events of the sensor
\* not yet delivered to the image entity.
VARIABLES now, sensor_events

\* BambuPlateAnalyzerImage: _last_updated, and what async_image last returned.
VARIABLES last_updated, served

\* History: the pass, mapping and image that the four fields were last
\* assigned from, the same for the state last written, the number of writes
\* of the slot, the write each field of the slot comes from, and the write
\* the image entity's timestamp comes from.
VARIABLES merged_from, published_src, writes, bytes_write, stamp_write, held_write

\* Calls of compute_bounding_boxes one after the other: their number, and
\* what each raster analysed so far returned. For the scan in any order: the
\* pixels visited so far.
VARIABLES calls, returned, visited

\* Dependency resolution of the sensor: the upstream entities in the entity
\* registry, _printable_objects_entity_id, _pick_image_entity_id, whether
\* _unsub_any_state holds a registered listener, the live subscriptions to
\* the printable-objects entity, and where the entity is in its life.
VARIABLES ent_reg, printable_objects_entity_id, pick_image_entity_id,
          unsub_any_state, tracking, lifecycle

\* History of the resolution: calls of _subscribe_to_printable_objects,
\* passes started, state_changed events delivered to the sensor.
VARIABLES subscriptions, tasks, events

\* The host: whether the sensor has a state in the state machine, and
\* whether the image entity was added and found it.
VARIABLES sensor_added, image_life

call_vars == <<calls, returned, visited>>
resolve_vars == <<ent_reg, printable_objects_entity_id, pick_image_entity_id,
                  unsub_any_state, tracking, lifecycle, subscriptions, tasks, events>>
host_vars == <<sensor_added, image_life>>

scan_vars == <<image, sx, sy, bboxes, seen_colors, scan_pc, result>>
jpg_vars == <<jpg_image, jpg_raster, jpg_bytes, jpg_pc>>
sensor_vars == <<object_count, objects, image_width, image_height>>
slot_vars == <<jpeg_bytes, jpeg_updated, writes, bytes_write, stamp_write>>
pass_vars == <<pc, objects_attr, image_bytes>>
entity_vars == <<last_updated, held_write, served>>
coord_vars == <<sensor_vars, published, published_src, slot_vars, pass_vars, now,
                sensor_events, entity_vars, merged_from>>
vars == <<scan_vars, jpg_vars, coord_vars, call_vars, resolve_vars, host_vars>>

\* ------------------------------------------------------------------ text

HexDigits == <<"0", "1", "2", "3", "4", "5", "6", "7",
               "8", "9", "A", "B", "C", "D", "E", "F">>

DecDigits == <<"0", "1", "2", "3", "4", "5", "6", "7", "8", "9">>

\* The value of one digit character (hex or decimal).
DigitValue(ch) == (CHOOSE i \in 1..16 : HexDigits[i] = ch) - 1

\* Python's format spec 02X: upper-case hex, zero-padded to width 2 (wider
\* when the value needs it).
RECURSIVE HexOf(_)
HexOf(n) == IF n < 16 THEN <<HexDigits[n + 1]>>
            ELSE HexOf(n \div 16) \o <<HexDigits[(n % 16) + 1]>>

FmtX(n) == HexOf(n)

Fmt02X(n) == IF n < 16 THEN <<"0">> \o HexOf(n) ELSE HexOf(n)

\* Python's int(text, 16): an optional "0x" prefix, then base-16 digits.
RECURSIVE ParseDigits(_, _)
ParseDigits(digits, base) ==
    IF digits = <<>> THEN 0
    ELSE ParseDigits(SubSeq(digits, 1, Len(digits) - 1), base) * base
         + DigitValue(digits[Len(digits)])

IntBase16(text) ==
    IF Len(text) >= 2 /\ text[1] = "0" /\ text[2] = "x"
    THEN ParseDigits(SubSeq(text, 3, Len(text)), 16)
    ELSE ParseDigits(text, 16)

\* Python's str(int) for a non-negative integer.
RECURSIVE Str(_)
Str(n) == IF n < 10 THEN <<DecDigits[n + 1]>>
          ELSE Str(n \div 10) \o <<DecDigits[(n % 10) + 1]>>

\* ------------------------------------------------------------------ rasters

\* Pixels of the enumerated RGBA rasters: the colour 0x12, 0x34, 0x56 opaque,
\* colour 7 opaque, half-transparent and fully transparent, colour 9 opaque.
Palette == { <<18, 52, 86, 255>>, <<7, 0, 0, 255>>, <<7, 0, 0, 128>>,
             <<7, 0, 0, 0>>, <<9, 0, 0, 255>> }

Coords(w, h) == (0..(w - 1)) \X (0..(h - 1))

Sizes == { wh \in (1..MaxPixels) \X (1..MaxPixels) : wh[1] * wh[2] <= MaxPixels }

Raster(mode, w, h, px) == [mode |-> mode, width |-> w, height |-> h, px |-> px]

RGBAImages ==
    UNION { { Raster("RGBA", wh[1], wh[2], px) : px \in [Coords(wh[1], wh[2]) -> Palette] }
            : wh \in Sizes }

\* An 11 x 6 raster, transparent but for the given opaque pixels.
Sparse(dots) ==
    Raster("RGBA", 11, 6,
           [c \in Coords(11, 6) |->
               IF c \in DOMAIN dots THEN dots[c] ELSE <<0, 0, 0, 0>>])

OneDot == Sparse((<<5, 5>> :> <<18, 52, 86, 255>>))
TwoDots == Sparse((<<5, 5>> :> <<18, 52, 86, 255>>) @@ (<<10, 2>> :> <<18, 52, 86, 255>>))

\* Rasters of other modes: Pillow's pixel access gives a 3-tuple for RGB, a
\* 2-tuple for LA, and a bare integer (here a 1-tuple) for L.
RGBImage == Raster("RGB", 1, 1, [c \in Coords(1, 1) |-> <<7, 0, 0>>])
LAImage == Raster("LA", 1, 1, [c \in Coords(1, 1) |-> <<200, 0>>])

\* One-pixel opaque rasters over sample byte values (both hex digits, the
\* zero-padded ones, the extremes).
ByteSamples == {0, 9, 10, 15, 16, 127, 255}

Swatches ==
    { Raster("RGBA", 1, 1, [c \in Coords(1, 1) |-> <<rgb[1], rgb[2], rgb[3], 255>>])
      : rgb \in ByteSamples \X ByteSamples \X ByteSamples }

\* Two-pixel opaque rasters over bytes whose hex digits run together when
\* they are not padded.
CloseBytes == {0, 1, 16}

PairImages ==
    { Raster("RGBA", 2, 1,
             (<<0, 0>> :> <<ab[1][1], ab[1][2], ab[1][3], 255>>)
             @@ (<<1, 0>> :> <<ab[2][1], ab[2][2], ab[2][3], 255>>))
      : ab \in (CloseBytes \X CloseBytes \X CloseBytes)
               \X (CloseBytes \X CloseBytes \X CloseBytes) }

ScanImages ==
    RGBAImages \cup Swatches \cup PairImages \cup {OneDot, TwoDots, RGBImage, LAImage}

\* ------------------------------------------------------------------ compute_bounding_boxes

Empty == <<>>

\* sensor.py 43: r, g, b, a = current_color raises unless there are 4 bands.
Unpacks(color) == Len(color) = 4

\* sensor.py 46: a == 0
IsTransparentNever(color) == FALSE

IsTransparent(color) == color[4] = 0

\* sensor.py 54: str(int(f"0x{b:02X}{g:02X}{r:02X}", 16))
PackRGB(color) ==
    Str(IntBase16(<<"0", "x">> \o Fmt02X(color[1]) \o Fmt02X(color[2]) \o Fmt02X(color[3])))

PackBGR(color) ==
    Str(IntBase16(<<"0", "x">> \o Fmt02X(color[3]) \o Fmt02X(color[2]) \o Fmt02X(color[1])))

\* sensor.py 50-55: the call-scoped colour cache, keyed by the whole pixel.
IdentifyId(seen, color) ==
    IF color \in DOMAIN seen THEN seen[color] ELSE PackBGR(color)

Remember(seen, color) ==
    IF color \in DOMAIN seen THEN seen ELSE seen @@ (color :> PackBGR(color))

\* sensor.py 58-69: create [x, y, x, y] or expand each bound on its own.
ExpandMinOnly(bbox, x, y) ==
    <<IF x < bbox[1] THEN x ELSE bbox[1],
      IF y < bbox[2] THEN y ELSE bbox[2],
      bbox[3],
      bbox[4]>>

\* The four tests as one chain: the first that holds is the only one taken.
ExpandElif(bbox, x, y) ==
    IF x < bbox[1] THEN <<x, bbox[2], bbox[3], bbox[4]>>
    ELSE IF y < bbox[2] THEN <<bbox[1], y, bbox[3], bbox[4]>>
    ELSE IF x > bbox[3] THEN <<bbox[1], bbox[2], x, bbox[4]>>
    ELSE IF y > bbox[4] THEN <<bbox[1], bbox[2], bbox[3], y>>
    ELSE bbox

Expand(bbox, x, y) ==
    <<IF x < bbox[1] THEN x ELSE bbox[1],
      IF y < bbox[2] THEN y ELSE bbox[2],
      IF x > bbox[3] THEN x ELSE bbox[3],
      IF y > bbox[4] THEN y ELSE bbox[4]>>

UpdateBBox(bb, id, x, y) ==
    IF id \in DOMAIN bb
    THEN [bb EXCEPT ![id] = Expand(bb[id], x, y)]
    ELSE bb @@ (id :> <<x, y, x, y>>)

\* sensor.py 32-38
ScanInit(img) ==
    /\ image = img
    /\ sx = 0
    /\ sy = 0
    /\ bboxes = Empty
    /\ seen_colors = Empty
    /\ scan_pc = "scan"
    /\ result = Empty

Advance ==
    IF sx + 1 < image.width
    THEN sx' = sx + 1 /\ sy' = sy
    ELSE sx' = 0 /\ sy' = sy + 1

AtPixel == scan_pc = "scan" /\ sy < image.height

\* sensor.py 42-43: a pixel that does not unpack into four bands raises.
ScanRaise ==
    /\ AtPixel
    /\ ~Unpacks(image.px[<<sx, sy>>])
    /\ scan_pc' = "raised"
    /\ UNCHANGED <<image, sx, sy, bboxes, seen_colors, result>>
    /\ UNCHANGED <<jpg_vars, coord_vars, call_vars, resolve_vars, host_vars>>

\* sensor.py 45-47
ScanSkip ==
    /\ AtPixel
    /\ Unpacks(image.px[<<sx, sy>>])
    /\ IsTransparent(image.px[<<sx, sy>>])
    /\ Advance
    /\ UNCHANGED <<image, bboxes, seen_colors, scan_pc, result>>
    /\ UNCHANGED <<jpg_vars, coord_vars, call_vars, resolve_vars, host_vars>>

\* sensor.py 49-69
ScanPixel ==
    /\ AtPixel
    /\ Unpacks(image.px[<<sx, sy>>])
    /\ ~IsTransparent(image.px[<<sx, sy>>])
    /\ LET color == image.px[<<sx, sy>>]
           id == IdentifyId(seen_colors, color)
       IN /\ seen_colors' = Remember(seen_colors, color)
          /\ bboxes' = UpdateBBox(bboxes, id, sx, sy)
    /\ Advance
    /\ UNCHANGED <<image, scan_pc, result>>
    /\ UNCHANGED <<jpg_vars, coord_vars, call_vars, resolve_vars, host_vars>>

\* sensor.py 71-75
ScanReturn ==
    /\ scan_pc = "scan"
    /\ sy >= image.height
    /\ scan_pc' = "done"
    /\ result' = [image_width |-> image.width, image_height |-> image.height,
                  bboxes |-> bboxes]
    /\ UNCHANGED <<image, sx, sy, bboxes, seen_colors>>
    /\ UNCHANGED <<jpg_vars, coord_vars, call_vars, resolve_vars, host_vars>>


\* Rasters analysed one after the other: they share colours in other places
\* and with other alpha, one has a transparent pixel, one raises.
PixelRow(a, b) == Raster("RGBA", 2, 1, (<<0, 0>> :> a) @@ (<<1, 0>> :> b))

CallImages ==
    { PixelRow(<<7, 0, 0, 255>>, <<7, 0, 0, 0>>),
      PixelRow(<<9, 0, 0, 255>>, <<7, 0, 0, 255>>),
      PixelRow(<<7, 0, 0, 128>>, <<9, 0, 0, 255>>),
      RGBImage }

\* A call whose locals are those the call before left behind.
ScanEnterKeepLocals(img) ==
    /\ image' = img
    /\ sx' = 0
    /\ sy' = 0
    /\ scan_pc' = "scan"
    /\ result' = Empty
    /\ UNCHANGED <<bboxes, seen_colors>>

\* sensor.py 32-38: a call starts on its raster with fresh locals.
ScanEnter(img) ==
    /\ image' = img
    /\ sx' = 0
    /\ sy' = 0
    /\ bboxes' = Empty
    /\ seen_colors' = Empty
    /\ scan_pc' = "scan"
    /\ result' = Empty

\* sensor.py 24-38: the next call, once the call before has returned or
\* raised; what that call returned is kept for comparison.
ScanCall(img) ==
    /\ scan_pc \in {"off", "done", "raised"}
    /\ calls < MaxCalls
    /\ calls' = calls + 1
    /\ returned' = IF scan_pc = "done" THEN returned @@ (image :> result)
                   ELSE returned
    /\ ScanEnter(img)
    /\ UNCHANGED visited
    /\ UNCHANGED <<jpg_vars, coord_vars, resolve_vars, host_vars>>

\* sensor.py 32: Image.open raises on bytes that are no raster.
Undecodable == [mode |-> "undecodable", width |-> 0, height |-> 0, px |-> Empty]

\* sensor.py 32, 43: the call raises on such bytes and on a raster whose
\* pixels do not unpack into four bands.
Raises(img) ==
    \/ img.mode = "undecodable"
    \/ \E c \in DOMAIN img.px : ~Unpacks(img.px[c])

\* sensor.py 40-69 in one piece: the loop from pixel number k on, row-major.
RECURSIVE ScanFrom(_, _, _, _)
ScanFrom(img, k, bb, seen) ==
    IF k >= img.width * img.height THEN bb
    ELSE LET x == k % img.width
             y == k \div img.width
             color == img.px[<<x, y>>]
         IN IF IsTransparent(color)
            THEN ScanFrom(img, k + 1, bb, seen)
            ELSE ScanFrom(img, k + 1,
                          UpdateBBox(bb, IdentifyId(seen, color), x, y),
                          Remember(seen, color))

\* Rasters scanned in every order: two opaque colours and a transparent pixel.
OrderPalette == { <<7, 0, 0, 255>>, <<9, 0, 0, 255>>, <<7, 0, 0, 0>> }

OrderImages ==
    { img \in RGBAImages : \A c \in DOMAIN img.px : img.px[c] \in OrderPalette }

\* sensor.py 40-41 without the order of the two loops: the scan is on a
\* raster none of whose pixels is visited yet.
VisitInit(img) ==
    /\ image = img
    /\ sx = 0
    /\ sy = 0
    /\ bboxes = Empty
    /\ seen_colors = Empty
    /\ scan_pc = "visit"
    /\ result = Empty
    /\ calls = 0
    /\ returned = Empty
    /\ visited = {}

\* sensor.py 45-47, at any pixel not visited yet.
VisitSkip(c) ==
    /\ scan_pc = "visit"
    /\ c \in DOMAIN image.px \ visited
    /\ IsTransparent(image.px[c])
    /\ visited' = visited \cup {c}
    /\ UNCHANGED <<scan_vars, calls, returned>>
    /\ UNCHANGED <<jpg_vars, coord_vars, resolve_vars, host_vars>>

\* sensor.py 49-69, at any pixel not visited yet.
VisitPixel(c) ==
    /\ scan_pc = "visit"
    /\ c \in DOMAIN image.px \ visited
    /\ ~IsTransparent(image.px[c])
    /\ LET color == image.px[c]
           id == IdentifyId(seen_colors, color)
       IN /\ seen_colors' = Remember(seen_colors, color)
          /\ bboxes' = UpdateBBox(bboxes, id, c[1], c[2])
    /\ visited' = visited \cup {c}
    /\ UNCHANGED <<image, sx, sy, scan_pc, result, calls, returned>>
    /\ UNCHANGED <<jpg_vars, coord_vars, resolve_vars, host_vars>>

\* sensor.py 24-75, for a raster on which it does not raise.
compute_bounding_boxes(img) ==
    [image_width |-> img.width, image_height |-> img.height,
     bboxes |-> ScanFrom(img, 0, Empty, Empty)]

\* ------------------------------------------------------------------ convert_to_jpeg

\* sensor.py 78: quality: int = 80
DefaultQuality == 80

\* Pillow's paste through an 8-bit mask blends each band of the source over
\* the canvas: (canvas * (255 - mask) + source * mask) / 255, rounded.
Div255(a) == ((a + 128) + ((a + 128) \div 256)) \div 256

Blend(mask, canvas, source) == Div255(canvas * (255 - mask) + source * mask)

\* sensor.py 83-85: a black RGB canvas, the image pasted through its band 3.
Composite(img) ==
    Raster("RGB", img.width, img.height,
           [c \in DOMAIN img.px |->
               LET p == img.px[c]
               IN <<Blend(p[4], 0, p[1]), Blend(p[4], 0, p[2]), Blend(p[4], 0, p[3])>>])

\* sensor.py 87: Pillow's convert("RGB") of a greyscale raster copies the
\* luminance into the three bands; an alpha band (LA) is dropped.
ConvertRGB(img) ==
    Raster("RGB", img.width, img.height,
           [c \in DOMAIN img.px |-> <<img.px[c][1], img.px[c][1], img.px[c][1]>>])

\* sensor.py 81-87
RgbRaster(img) ==
    IF img.mode = "RGBA" THEN Composite(img)
    ELSE IF img.mode # "RGB" THEN ConvertRGB(img)
    ELSE img

\* sensor.py 88-90: the encoder is Pillow's; its output is kept as the raster
\* it was given and the quality.
Encoded(raster, quality) == [format |-> "JPEG", quality |-> quality, raster |-> raster]

convert_to_jpeg(img, quality) == Encoded(RgbRaster(img), quality)

LAPalette == { <<200, 0>>, <<200, 255>>, <<200, 128>>, <<0, 255>> }

LAImages ==
    UNION { { Raster("LA", w, 1, px) : px \in [Coords(w, 1) -> LAPalette] } : w \in 1..2 }

LImage == Raster("L", 1, 1, [c \in Coords(1, 1) |-> <<200>>])

JpegImages == RGBAImages \cup LAImages \cup {RGBImage, LImage}

\* sensor.py 80
JpegOpen(img) ==
    /\ jpg_image = img
    /\ jpg_raster = Empty
    /\ jpg_bytes = Empty
    /\ jpg_pc = "open"

\* sensor.py 81-85
JpegComposite ==
    /\ jpg_pc = "open"
    /\ jpg_image.mode = "RGBA"
    /\ jpg_raster' = RgbRaster(jpg_image)
    /\ jpg_pc' = "rgb"
    /\ UNCHANGED <<jpg_image, jpg_bytes>>
    /\ UNCHANGED <<scan_vars, coord_vars, call_vars, resolve_vars, host_vars>>

\* sensor.py 86-87
JpegConvert ==
    /\ jpg_pc = "open"
    /\ jpg_image.mode # "RGBA"
    /\ jpg_image.mode # "RGB"
    /\ jpg_raster' = RgbRaster(jpg_image)
    /\ jpg_pc' = "rgb"
    /\ UNCHANGED <<jpg_image, jpg_bytes>>
    /\ UNCHANGED <<scan_vars, coord_vars, call_vars, resolve_vars, host_vars>>

\* sensor.py 81, 86: an RGB image takes neither branch.
JpegKeep ==
    /\ jpg_pc = "open"
    /\ jpg_image.mode = "RGB"
    /\ jpg_raster' = RgbRaster(jpg_image)
    /\ jpg_pc' = "rgb"
    /\ UNCHANGED <<jpg_image, jpg_bytes>>
    /\ UNCHANGED <<scan_vars, coord_vars, call_vars, resolve_vars, host_vars>>

\* sensor.py 88-90
JpegSave ==
    /\ jpg_pc = "rgb"
    /\ jpg_bytes' = Encoded(jpg_raster, DefaultQuality)
    /\ jpg_pc' = "saved"
    /\ UNCHANGED <<jpg_image, jpg_raster>>
    /\ UNCHANGED <<scan_vars, coord_vars, call_vars, resolve_vars, host_vars>>

\* ------------------------------------------------------------------ the coordinator

\* Python's None, and a value that is not None.
None == <<>>
Some(v) == <<v>>

Passes == 1..MaxPasses

\* A key of the printable-objects mapping: a str or an int. Python compares
\* a str and an int unequal, whatever their digits.
StrKey(n) == [int |-> FALSE, text |-> Str(n)]
IntKey(n) == [int |-> TRUE, text |-> Str(n)]

Gizmo == <<"G", "i", "z", "m", "o">>
Nut == <<"N", "u", "t">>
Piped == <<"A", "|", "B">>

\* The "objects" attribute of the printable-objects state: a dict, kept as
\* the sequence of its (key, name) items in iteration order. A missing
\* attribute reads as the empty dict (sensor.py 276).
NameMappings ==
    { Empty,
      << <<StrKey(7), Gizmo>> >>,
      << <<IntKey(7), Nut>>, <<StrKey(9), Piped>> >> }

\* Pick images: colour 7 at (1,2) and (2,1) and colour 9 at (0,0) and (1,1);
\* one pixel of colour 0x12, 0x34, 0x56 alone.
PlateA ==
    Raster("RGBA", 3, 3,
           [c \in Coords(3, 3) |->
               IF c \in {<<1, 2>>, <<2, 1>>} THEN <<7, 0, 0, 255>>
               ELSE IF c \in {<<0, 0>>, <<1, 1>>} THEN <<9, 0, 0, 255>>
               ELSE <<0, 0, 0, 0>>])

PlateB == Raster("RGBA", 1, 1, [c \in Coords(1, 1) |-> <<18, 52, 86, 255>>])

PickBytes == {PlateA, PlateB, Undecodable}

\* sensor.py 308: identify_id in bboxes, the keys of bboxes being str.
KeyIn(key, bb) == ~key.int /\ key.text \in DOMAIN bb

\* sensor.py 305-310
RECURSIVE MergeOnlyBoxed(_, _)
MergeOnlyBoxed(attr, bb) ==
    IF attr = Empty THEN Empty
    ELSE LET key == attr[Len(attr)][1]
             name == attr[Len(attr)][2]
         IN MergeOnlyBoxed(SubSeq(attr, 1, Len(attr) - 1), bb)
            \o (IF KeyIn(key, bb)
                THEN <<[id |-> key, name |-> name, bbox |-> Some(bb[key.text])]>>
                ELSE Empty)

RECURSIVE Merge(_, _)
Merge(attr, bb) ==
    IF attr = Empty THEN Empty
    ELSE LET key == attr[Len(attr)][1]
             name == attr[Len(attr)][2]
         IN Merge(SubSeq(attr, 1, Len(attr) - 1), bb)
            \o <<[id |-> key, name |-> name,
                  bbox |-> IF KeyIn(key, bb) THEN Some(bb[key.text]) ELSE None]>>

\* sensor.py 150-168
Truthy(opt) == opt # None /\ opt[1] # Empty

RecordTextNoColon(obj) ==
    obj.id.text \o <<":">> \o obj.name \o
    (IF Truthy(obj.bbox)
     THEN <<":">> \o
          Str(obj.bbox[1][1]) \o <<",">> \o Str(obj.bbox[1][2]) \o <<",">> \o
          Str(obj.bbox[1][3]) \o <<",">> \o Str(obj.bbox[1][4])
     ELSE Empty)

RecordText(obj) ==
    obj.id.text \o <<":">> \o obj.name \o <<":">> \o
    (IF Truthy(obj.bbox)
     THEN Str(obj.bbox[1][1]) \o <<",">> \o Str(obj.bbox[1][2]) \o <<",">> \o
          Str(obj.bbox[1][3]) \o <<",">> \o Str(obj.bbox[1][4])
     ELSE Empty)

RECURSIVE Join(_, _)
Join(parts, sep) ==
    IF parts = Empty THEN Empty
    ELSE IF Len(parts) = 1 THEN parts[1]
    ELSE Join(SubSeq(parts, 1, Len(parts) - 1), sep) \o sep \o parts[Len(parts)]

bbox_data_serialized(objs) ==
    IF objs = Empty THEN Empty
    ELSE Join([i \in 1..Len(objs) |-> RecordText(objs[i])], <<"|">>)

\* sensor.py 135-148: the state and attributes the sensor writes.
StateOf(count, objs, w, h) ==
    [native_value |-> count, image_width |-> w, image_height |-> h,
     objects |-> objs, bbox_data |-> bbox_data_serialized(objs)]

\* sensor.py 283, 334: async_write_ha_state of the fields as assigned. The
\* host fires state_changed only when the state or an attribute differs.
WriteState(count, objs, w, h, src) ==
    /\ published' = StateOf(count, objs, w, h)
    /\ published_src' = src
    /\ sensor_events' = IF StateOf(count, objs, w, h) # published
                        THEN sensor_events + 1 ELSE sensor_events

Source(p, attr, bytes) == [pass |-> p, attr |-> attr, bytes |-> bytes]
NoSource == Source(0, Empty, None)

\* The pass is over, at the place named: its locals are gone.
Finish(p, place) ==
    /\ pc' = [pc EXCEPT ![p] = place]
    /\ objects_attr' = [objects_attr EXCEPT ![p] = Empty]
    /\ image_bytes' = [image_bytes EXCEPT ![p] = None]

\* sensor.py 110-133, image.py 33-44, and both entities added to the host
\* with their dependencies resolved: the sensor has written its first state.
CoordInit ==
    /\ object_count = 0
    /\ objects = Empty
    /\ image_width = 0
    /\ image_height = 0
    /\ published = StateOf(0, Empty, 0, 0)
    /\ published_src = NoSource
    /\ jpeg_bytes = None
    /\ jpeg_updated = None
    /\ writes = 0
    /\ bytes_write = 0
    /\ stamp_write = 0
    /\ pc = [p \in Passes |-> "idle"]
    /\ objects_attr = [p \in Passes |-> Empty]
    /\ image_bytes = [p \in Passes |-> None]
    /\ now = 1
    /\ sensor_events = 0
    /\ last_updated = None
    /\ held_write = 0
    /\ served = [write |-> 0, held |-> 0]
    /\ merged_from = NoSource

\* ------------------------------------------- resolution of the dependencies

\* The upstream entities, by the suffix of their unique_id.
Upstream == {"printable_objects", "pick_image"}

\* A lookup that forgets what an earlier attempt found.
FoundNow(id, kind) == IF kind \in ent_reg THEN Some(kind) ELSE None

\* sensor.py 191-195: the loop over the registry assigns the field when an
\* entry matches, and leaves it as it was when none does.
Found(id, kind) == IF kind \in ent_reg THEN Some(kind) ELSE id

\* sensor.py 187-195
ResolveEntities ==
    /\ printable_objects_entity_id' = Found(printable_objects_entity_id, "printable_objects")
    /\ pick_image_entity_id' = Found(pick_image_entity_id, "pick_image")

\* sensor.py 197-200
Resolved == printable_objects_entity_id # None /\ pick_image_entity_id # None

\* sensor.py 209-227: subscribe, and start a pass when the entity's current
\* state has objects.
SubscribeToPrintableObjects(has_objects) ==
    /\ tracking' = tracking + 1
    /\ subscriptions' = subscriptions + 1
    /\ tasks' = IF has_objects THEN tasks + 1 ELSE tasks

CancelNothing == UNCHANGED unsub_any_state

\* sensor.py 229-234
CancelAnyStateListener == unsub_any_state' = FALSE

\* sensor.py 170-185
AddedToHass(has_objects) ==
    /\ lifecycle = "new"
    /\ lifecycle' = "added"
    /\ ResolveEntities
    /\ IF Resolved'
       THEN SubscribeToPrintableObjects(has_objects) /\ UNCHANGED unsub_any_state
       ELSE unsub_any_state' = TRUE /\ UNCHANGED <<tracking, subscriptions, tasks>>
    /\ UNCHANGED <<ent_reg, events>>
    /\ UNCHANGED <<scan_vars, jpg_vars, coord_vars, call_vars, host_vars>>

\* sensor.py 236-242: a state_changed event reaches the registered listener.
OnAnyStateChanged(has_objects) ==
    /\ unsub_any_state
    /\ events < MaxEvents
    /\ events' = events + 1
    /\ ResolveEntities
    /\ IF Resolved'
       THEN CancelAnyStateListener /\ SubscribeToPrintableObjects(has_objects)
       ELSE UNCHANGED <<unsub_any_state, tracking, subscriptions, tasks>>
    /\ UNCHANGED <<ent_reg, lifecycle>>
    /\ UNCHANGED <<scan_vars, jpg_vars, coord_vars, call_vars, host_vars>>

\* sensor.py 244-249: a state change of the printable-objects entity reaches
\* each live subscription, which runs a pass unless the new state is None.
OnPrintableObjectsChanged(has_state) ==
    /\ tracking > 0
    /\ events < MaxEvents
    /\ events' = events + 1
    /\ tasks' = IF has_state THEN tasks + tracking ELSE tasks
    /\ UNCHANGED <<ent_reg, printable_objects_entity_id, pick_image_entity_id,
                   unsub_any_state, tracking, lifecycle, subscriptions>>
    /\ UNCHANGED <<scan_vars, jpg_vars, coord_vars, call_vars, host_vars>>

\* sensor.py 183, 212-218: the callbacks given to async_on_remove run when
\* the entity is removed.
Removed ==
    /\ lifecycle = "added"
    /\ lifecycle' = "removed"
    /\ CancelAnyStateListener
    /\ tracking' = 0
    /\ UNCHANGED <<ent_reg, printable_objects_entity_id, pick_image_entity_id,
                   subscriptions, tasks, events>>
    /\ UNCHANGED <<scan_vars, jpg_vars, coord_vars, call_vars, host_vars>>

\* sensor.py 189: the registry the lookup reads gains or loses an upstream
\* entity.
RegistryAdd(kind) ==
    /\ kind \notin ent_reg
    /\ ent_reg' = ent_reg \cup {kind}
    /\ UNCHANGED <<printable_objects_entity_id, pick_image_entity_id, unsub_any_state,
                   tracking, lifecycle, subscriptions, tasks, events>>
    /\ UNCHANGED <<scan_vars, jpg_vars, coord_vars, call_vars, host_vars>>

RegistryRemove(kind) ==
    /\ kind \in ent_reg
    /\ ent_reg' = ent_reg \ {kind}
    /\ UNCHANGED <<printable_objects_entity_id, pick_image_entity_id, unsub_any_state,
                   tracking, lifecycle, subscriptions, tasks, events>>
    /\ UNCHANGED <<scan_vars, jpg_vars, coord_vars, call_vars, host_vars>>

\* sensor.py 121-126: a sensor not yet added, with any of the upstream
\* entities registered.
ResolveInit ==
    /\ ent_reg \in SUBSET Upstream
    /\ printable_objects_entity_id = None
    /\ pick_image_entity_id = None
    /\ unsub_any_state = FALSE
    /\ tracking = 0
    /\ lifecycle = "new"
    /\ subscriptions = 0
    /\ tasks = 0
    /\ events = 0

\* ------------------------------------------------------------ the passes

\* sensor.py 244-249: the handler of the next printable-objects signal.
Signalled(p) == pc[p] = "idle" /\ \A q \in Passes : q < p => pc[q] # "idle"

\* sensor.py 290-291, 298-300: the pass returns, having assigned nothing.
AbandonReset(p) ==
    /\ Finish(p, "failed")
    /\ object_count' = 0
    /\ objects' = Empty
    /\ image_width' = 0
    /\ image_height' = 0
    /\ UNCHANGED <<published, published_src, slot_vars, sensor_events, merged_from>>

Abandon(p) ==
    /\ Finish(p, "failed")
    /\ UNCHANGED <<sensor_vars, published, published_src, slot_vars, sensor_events,
                   merged_from>>

\* sensor.py 276-284: an empty (or missing) mapping resets and publishes.
PassEmptyKeepSize(p) ==
    /\ Signalled(p)
    /\ object_count' = 0
    /\ objects' = Empty
    /\ merged_from' = Source(p, Empty, None)
    /\ WriteState(0, Empty, image_width, image_height, Source(p, Empty, None))
    /\ Finish(p, "done")
    /\ UNCHANGED <<image_width, image_height, slot_vars, now, entity_vars>>
    /\ UNCHANGED <<scan_vars, jpg_vars, call_vars, resolve_vars, host_vars>>

PassEmpty(p) ==
    /\ Signalled(p)
    /\ object_count' = 0
    /\ objects' = Empty
    /\ image_width' = 0
    /\ image_height' = 0
    /\ merged_from' = Source(p, Empty, None)
    /\ WriteState(0, Empty, 0, 0, Source(p, Empty, None))
    /\ Finish(p, "done")
    /\ UNCHANGED <<slot_vars, now, entity_vars>>
    /\ UNCHANGED <<scan_vars, jpg_vars, call_vars, resolve_vars, host_vars>>

\* sensor.py 253-264, 288-291: no image component, or no such entity in it:
\* _async_get_pick_image returns None without suspending.
PassNoEntity(p, attr) ==
    /\ Signalled(p)
    /\ attr # Empty
    /\ Abandon(p)
    /\ UNCHANGED <<now, entity_vars>>
    /\ UNCHANGED <<scan_vars, jpg_vars, call_vars, resolve_vars, host_vars>>

\* sensor.py 266-267, 288: the pass awaits the pick image entity.
PassFetch(p, attr) ==
    /\ Signalled(p)
    /\ attr # Empty
    /\ objects_attr' = [objects_attr EXCEPT ![p] = attr]
    /\ pc' = [pc EXCEPT ![p] = "fetch"]
    /\ UNCHANGED <<sensor_vars, published, published_src, slot_vars, image_bytes,
                   now, sensor_events, entity_vars, merged_from>>
    /\ UNCHANGED <<scan_vars, jpg_vars, call_vars, resolve_vars, host_vars>>

\* sensor.py 267-272, 290-291: async_image raises or returns None.
FetchNone(p) ==
    /\ pc[p] = "fetch"
    /\ Abandon(p)
    /\ UNCHANGED <<now, entity_vars>>
    /\ UNCHANGED <<scan_vars, jpg_vars, call_vars, resolve_vars, host_vars>>

\* sensor.py 267, 288, 295: the bytes arrive and go to the executor.
FetchBytes(p, bytes) ==
    /\ pc[p] = "fetch"
    /\ image_bytes' = [image_bytes EXCEPT ![p] = Some(bytes)]
    /\ pc' = [pc EXCEPT ![p] = "compute"]
    /\ UNCHANGED <<sensor_vars, published, published_src, slot_vars, objects_attr,
                   now, sensor_events, entity_vars, merged_from>>
    /\ UNCHANGED <<scan_vars, jpg_vars, call_vars, resolve_vars, host_vars>>

\* sensor.py 294-300: compute_bounding_boxes raised.
ComputeRaise(p) ==
    /\ pc[p] = "compute"
    /\ Raises(image_bytes[p][1])
    /\ Abandon(p)
    /\ UNCHANGED <<now, entity_vars>>
    /\ UNCHANGED <<scan_vars, jpg_vars, call_vars, resolve_vars, host_vars>>

\* A merge that assigns the objects and their count, not the dimensions.
ComputeMergeObjectsOnly(p) ==
    /\ pc[p] = "compute"
    /\ ~Raises(image_bytes[p][1])
    /\ LET res == compute_bounding_boxes(image_bytes[p][1])
           merged == Merge(objects_attr[p], res.bboxes)
       IN /\ object_count' = Len(merged)
          /\ objects' = merged
    /\ merged_from' = Source(p, objects_attr[p], image_bytes[p])
    /\ pc' = [pc EXCEPT ![p] = "jpeg"]
    /\ UNCHANGED <<image_width, image_height>>
    /\ UNCHANGED <<published, published_src, slot_vars, objects_attr, image_bytes,
                   now, sensor_events, entity_vars>>
    /\ UNCHANGED <<scan_vars, jpg_vars, call_vars, resolve_vars, host_vars>>

\* sensor.py 302-320: merge, assign the four fields, go to the executor for
\* the JPEG.
ComputeMerge(p) ==
    /\ pc[p] = "compute"
    /\ ~Raises(image_bytes[p][1])
    /\ LET res == compute_bounding_boxes(image_bytes[p][1])
           merged == Merge(objects_attr[p], res.bboxes)
       IN /\ object_count' = Len(merged)
          /\ objects' = merged
          /\ image_width' = res.image_width
          /\ image_height' = res.image_height
    /\ merged_from' = Source(p, objects_attr[p], image_bytes[p])
    /\ pc' = [pc EXCEPT ![p] = "jpeg"]
    /\ UNCHANGED <<published, published_src, slot_vars, objects_attr, image_bytes,
                   now, sensor_events, entity_vars>>
    /\ UNCHANGED <<scan_vars, jpg_vars, call_vars, resolve_vars, host_vars>>

\* sensor.py 322-324: both fields of the slot, with no await between them.
StoreStampOnly(p, t) ==
    /\ jpeg_updated' = Some(t)
    /\ writes' = writes + 1
    /\ stamp_write' = writes + 1
    /\ UNCHANGED <<jpeg_bytes, bytes_write>>

StoreJpegSignalTime(p, t) ==
    /\ jpeg_bytes' = Some(convert_to_jpeg(image_bytes[p][1], DefaultQuality))
    /\ jpeg_updated' = Some(p)
    /\ writes' = writes + 1
    /\ bytes_write' = writes + 1
    /\ stamp_write' = writes + 1

StoreJpeg(p, t) ==
    /\ jpeg_bytes' = Some(convert_to_jpeg(image_bytes[p][1], DefaultQuality))
    /\ jpeg_updated' = Some(t)
    /\ writes' = writes + 1
    /\ bytes_write' = writes + 1
    /\ stamp_write' = writes + 1

\* sensor.py 319-334: the JPEG arrives, is stored with the time read from
\* the clock, and the state is written.
JpegStore(p, t) ==
    /\ pc[p] = "jpeg"
    /\ t >= now
    /\ now' = t
    /\ StoreJpeg(p, t)
    /\ WriteState(object_count, objects, image_width, image_height, merged_from)
    /\ Finish(p, "done")
    /\ UNCHANGED <<sensor_vars, entity_vars, merged_from>>
    /\ UNCHANGED <<scan_vars, jpg_vars, call_vars, resolve_vars, host_vars>>

\* The error ends the pass before the state is written.
JpegRaisePropagates(p) ==
    /\ pc[p] = "jpeg"
    /\ Finish(p, "done")
    /\ UNCHANGED <<published, published_src, sensor_events>>
    /\ UNCHANGED <<sensor_vars, slot_vars, now, entity_vars, merged_from>>
    /\ UNCHANGED <<scan_vars, jpg_vars, call_vars, resolve_vars, host_vars>>

\* sensor.py 325-334: the conversion raised; the state is written all the same.
JpegRaise(p) ==
    /\ pc[p] = "jpeg"
    /\ WriteState(object_count, objects, image_width, image_height, merged_from)
    /\ Finish(p, "done")
    /\ UNCHANGED <<sensor_vars, slot_vars, now, entity_vars, merged_from>>
    /\ UNCHANGED <<scan_vars, jpg_vars, call_vars, resolve_vars, host_vars>>

\* image.py 87-94
CheckJpegUpdate ==
    IF jpeg_updated # None /\ jpeg_updated # last_updated
    THEN last_updated' = jpeg_updated /\ held_write' = stamp_write
    ELSE UNCHANGED <<last_updated, held_write>>

\* image.py 82-94: a state_changed event of the sensor reaches the image
\* entity, which reads jpeg_updated.
OnSensorChanged ==
    /\ sensor_events > 0
    /\ sensor_events' = sensor_events - 1
    /\ CheckJpegUpdate
    /\ UNCHANGED <<sensor_vars, published, published_src, slot_vars, pass_vars, now,
                   served, merged_from>>
    /\ UNCHANGED <<scan_vars, jpg_vars, call_vars, resolve_vars, host_vars>>

\* sensor.py 92-100: the sensor is added to the host, which writes its first
\* state to the state machine.
SensorAdded ==
    /\ ~sensor_added
    /\ sensor_added' = TRUE
    /\ UNCHANGED <<image_life, coord_vars>>
    /\ UNCHANGED <<scan_vars, jpg_vars, call_vars, resolve_vars>>

\* image.py 56-80: the image entity is added. It subscribes, and looks at
\* the slot, only if the sensor has a state by then; events fired before it
\* subscribed never reach it.
ImageAdded ==
    /\ image_life = "new"
    /\ IF sensor_added
       THEN /\ image_life' = "listening"
            /\ sensor_events' = 0
            /\ CheckJpegUpdate
       ELSE /\ image_life' = "deaf"
            /\ UNCHANGED <<sensor_events, last_updated, held_write>>
    /\ UNCHANGED <<sensor_added, sensor_vars, published, published_src, slot_vars,
                   pass_vars, now, served, merged_from>>
    /\ UNCHANGED <<scan_vars, jpg_vars, call_vars, resolve_vars>>

\* image.py 51-54: a consumer asks for the image and is served jpeg_bytes.
AsyncImage ==
    /\ served' = [write |-> bytes_write, held |-> held_write]
    /\ served' # served
    /\ UNCHANGED <<sensor_vars, published, published_src, slot_vars, pass_vars, now,
                   sensor_events, last_updated, held_write, merged_from>>
    /\ UNCHANGED <<scan_vars, jpg_vars, call_vars, resolve_vars, host_vars>>

\* ------------------------------------------------------------------ specifications

ScanIdle ==
    /\ image = Undecodable
    /\ sx = 0
    /\ sy = 0
    /\ bboxes = Empty
    /\ seen_colors = Empty
    /\ scan_pc = "off"
    /\ result = Empty

CallIdle ==
    /\ calls = 0
    /\ returned = Empty
    /\ visited = {}

\* The sensor added to the host with both upstream entities found and
\* subscribed to the printable-objects entity.
ResolveIdle ==
    /\ ent_reg = {"printable_objects", "pick_image"}
    /\ printable_objects_entity_id = Some("printable_objects")
    /\ pick_image_entity_id = Some("pick_image")
    /\ unsub_any_state = FALSE
    /\ tracking = 1
    /\ lifecycle = "added"
    /\ subscriptions = 1
    /\ tasks = 0
    /\ events = 0

\* Both entities added, the sensor first: the image entity listens to it.
HostReady ==
    /\ sensor_added = TRUE
    /\ image_life = "listening"

JpegIdle ==
    /\ jpg_image = Undecodable
    /\ jpg_raster = Empty
    /\ jpg_bytes = Empty
    /\ jpg_pc = "off"

\* compute_bounding_boxes on each enumerated raster.
InitScan ==
    /\ \E img \in ScanImages : ScanInit(img)
    /\ JpegIdle /\ CoordInit /\ CallIdle /\ ResolveIdle /\ HostReady

NextScan == ScanRaise \/ ScanSkip \/ ScanPixel \/ ScanReturn

SpecScan == InitScan /\ [][NextScan]_vars

\* convert_to_jpeg on each enumerated raster.
InitJpeg ==
    /\ \E img \in JpegImages : JpegOpen(img)
    /\ ScanIdle /\ CoordInit /\ CallIdle /\ ResolveIdle /\ HostReady

NextJpeg == JpegComposite \/ JpegConvert \/ JpegKeep \/ JpegSave

SpecJpeg == InitJpeg /\ [][NextJpeg]_vars

\* The coordinator and the image entity on one event loop.
Init == CoordInit /\ ScanIdle /\ JpegIdle /\ CallIdle /\ ResolveIdle /\ HostReady

Next ==
    \/ \E p \in Passes : PassEmpty(p)
    \/ \E p \in Passes, attr \in NameMappings : PassNoEntity(p, attr)
    \/ \E p \in Passes, attr \in NameMappings : PassFetch(p, attr)
    \/ \E p \in Passes : FetchNone(p)
    \/ \E p \in Passes, bytes \in PickBytes : FetchBytes(p, bytes)
    \/ \E p \in Passes : ComputeRaise(p)
    \/ \E p \in Passes : ComputeMerge(p)
    \/ \E p \in Passes, t \in 1..MaxClock : JpegStore(p, t)
    \/ \E p \in Passes : JpegRaise(p)
    \/ OnSensorChanged
    \/ AsyncImage

Spec == Init /\ [][Next]_vars

\* compute_bounding_boxes called again and again.
InitCalls == ScanIdle /\ CallIdle /\ JpegIdle /\ CoordInit /\ ResolveIdle /\ HostReady

NextCalls ==
    \/ \E img \in CallImages : ScanCall(img)
    \/ ScanRaise
    \/ ScanSkip
    \/ ScanPixel
    \/ ScanReturn

SpecCalls == InitCalls /\ [][NextCalls]_vars

\* The per-pixel step of compute_bounding_boxes, the pixels in any order.
InitOrder ==
    /\ \E img \in OrderImages : VisitInit(img)
    /\ JpegIdle /\ CoordInit /\ ResolveIdle /\ HostReady

NextOrder ==
    \/ \E c \in Coords(MaxPixels, MaxPixels) : VisitSkip(c)
    \/ \E c \in Coords(MaxPixels, MaxPixels) : VisitPixel(c)

SpecOrder == InitOrder /\ [][NextOrder]_vars

\* The sensor from its construction on, with the registry filling up.
InitResolve == ResolveInit /\ ScanIdle /\ CallIdle /\ JpegIdle /\ CoordInit /\ HostReady

NextResolve ==
    \/ \E has_objects \in BOOLEAN : AddedToHass(has_objects)
    \/ \E has_objects \in BOOLEAN : OnAnyStateChanged(has_objects)
    \/ \E has_state \in BOOLEAN : OnPrintableObjectsChanged(has_state)
    \/ Removed
    \/ \E kind \in Upstream : RegistryAdd(kind)
    \/ \E kind \in Upstream : RegistryRemove(kind)

SpecResolve == InitResolve /\ [][NextResolve]_vars

\* The coordinator and the image entity, added to the host in either order.
InitImage ==
    /\ sensor_added = FALSE
    /\ image_life = "new"
    /\ CoordInit /\ ScanIdle /\ CallIdle /\ JpegIdle /\ ResolveIdle

NextImage ==
    \/ SensorAdded
    \/ ImageAdded
    \/ \E p \in Passes : sensor_added /\ PassEmpty(p)
    \/ \E p \in Passes, attr \in NameMappings : sensor_added /\ PassNoEntity(p, attr)
    \/ \E p \in Passes, attr \in NameMappings : sensor_added /\ PassFetch(p, attr)
    \/ \E p \in Passes : FetchNone(p)
    \/ \E p \in Passes, bytes \in PickBytes : FetchBytes(p, bytes)
    \/ \E p \in Passes : ComputeRaise(p)
    \/ \E p \in Passes : ComputeMerge(p)
    \/ \E p \in Passes, t \in 1..MaxClock : JpegStore(p, t)
    \/ \E p \in Passes : JpegRaise(p)
    \/ image_life = "listening" /\ OnSensorChanged
    \/ image_life # "new" /\ AsyncImage

SpecImage == InitImage /\ [][NextImage]_vars


\* ------------------------------------------------------------------ properties

Min(S) == CHOOSE m \in S : \A n \in S : m <= n
Max(S) == CHOOSE m \in S : \A n \in S : m >= n

\* The pixels the loop has already visited.
Scanned(c) ==
    /\ scan_pc \in {"scan", "done"}
    /\ c[2] < sy \/ (c[2] = sy /\ c[1] < sx)

SampleId == <<"5", "6", "4", "9", "4", "2", "6">>

\* C1: every visited pixel with alpha # 0 has the identifier whose decimal
\* value is B * 65536 + G * 256 + R, written without a leading zero, and that
\* identifier has a box; RGB = (0x12, 0x34, 0x56) has the identifier 5649426
\* (0x563412), which is not its RGB-order value.
C1_BGRPacking ==
    \A c \in DOMAIN image.px :
        LET p == image.px[c]
        IN (Scanned(c) /\ Unpacks(p) /\ p[4] # 0) =>
              /\ p \in DOMAIN seen_colors
              /\ ParseDigits(seen_colors[p], 10) = p[3] * 65536 + p[2] * 256 + p[1]
              /\ Len(seen_colors[p]) = 1 \/ seen_colors[p][1] # "0"
              /\ seen_colors[p] \in DOMAIN bboxes
              /\ (p[1] = 18 /\ p[2] = 52 /\ p[3] = 86) =>
                    /\ seen_colors[p] = SampleId
                    /\ ParseDigits(seen_colors[p], 10) # p[1] * 65536 + p[2] * 256 + p[3]

C1_Witness ==
    /\ scan_pc = "done"
    /\ image = OneDot
    /\ DOMAIN result.bboxes = {SampleId}

Opaque(img) == { c \in DOMAIN img.px : img.px[c][4] # 0 }

\* C2: the returned map has one key per identifier with a pixel of alpha # 0,
\* its box is [min x, min y, max x, max y] over those pixels and lies inside
\* the image; one pixel at (5,5) gives [5,5,5,5], a second one of the same
\* colour at (10,2) gives [5,2,10,5].
C2_BoundingBoxes ==
    scan_pc = "done" =>
        LET on == Opaque(image)
            ids == { PackBGR(image.px[c]) : c \in on }
        IN /\ DOMAIN result.bboxes = ids
           /\ \A id \in ids :
                 LET cs == { c \in on : PackBGR(image.px[c]) = id }
                     box == result.bboxes[id]
                 IN /\ box = << Min({c[1] : c \in cs}), Min({c[2] : c \in cs}),
                                Max({c[1] : c \in cs}), Max({c[2] : c \in cs}) >>
                    /\ 0 <= box[1] /\ box[1] <= box[3] /\ box[3] < result.image_width
                    /\ 0 <= box[2] /\ box[2] <= box[4] /\ box[4] < result.image_height
           /\ image = OneDot => result.bboxes[SampleId] = <<5, 5, 5, 5>>
           /\ image = TwoDots => result.bboxes[SampleId] = <<5, 2, 10, 5>>

C2_Witness ==
    /\ scan_pc = "done"
    /\ image = TwoDots
    /\ result.bboxes[SampleId] = <<5, 2, 10, 5>>

\* C3: a step of the scan at a pixel with alpha = 0 leaves the bboxes map as
\* it was, and an image whose pixels all have alpha = 0 returns an empty map.
C3_TransparencyExclusion ==
    /\ [][(AtPixel /\ Unpacks(image.px[<<sx, sy>>]) /\ image.px[<<sx, sy>>][4] = 0)
            => bboxes' = bboxes]_vars
    /\ []((scan_pc = "done" /\ \A c \in DOMAIN image.px : image.px[c][4] = 0)
            => result.bboxes = Empty)

C3_Witness ==
    /\ scan_pc = "done"
    /\ image.width = 2 /\ image.height = 1
    /\ image.px[<<0, 0>>] = <<7, 0, 0, 255>>
    /\ image.px[<<1, 0>>] = <<7, 0, 0, 0>>
    /\ result.bboxes = (<<"7">> :> <<0, 0, 0, 0>>)

HasAlpha(img) == img.mode \in {"RGBA", "LA"}
Alpha(p) == p[Len(p)]
SourceRGB(p) == IF Len(p) >= 3 THEN <<p[1], p[2], p[3]>> ELSE <<p[1], p[1], p[1]>>

\* C8: the RGB raster handed to the encoder is black where the source alpha
\* is 0 and the source colour where it is 255, for every image with an alpha
\* channel; an image without alpha is converted to RGB, an RGB image is kept.
C8_AlphaCompositing ==
    jpg_pc \in {"rgb", "saved"} =>
        /\ jpg_raster.mode = "RGB"
        /\ \A c \in DOMAIN jpg_image.px :
              LET p == jpg_image.px[c]
                  q == jpg_raster.px[c]
              IN IF HasAlpha(jpg_image)
                 THEN /\ Alpha(p) = 0 => q = <<0, 0, 0>>
                      /\ Alpha(p) = 255 => q = SourceRGB(p)
                 ELSE q = SourceRGB(p)

\* The extractor's output for the image a record was merged from.
BBoxesOf(src) == compute_bounding_boxes(src.bytes[1]).bboxes

\* The merge policy, for a mapping attr, extractor output bb, merged records
\* objs and a count.
MergePolicy(attr, bb, objs, count) ==
    /\ Len(objs) = Len(attr)
    /\ count = Cardinality({ attr[i][1] : i \in 1..Len(attr) })
    /\ \A i \in 1..Len(attr) :
          LET key == attr[i][1]
              inB == ~key.int /\ key.text \in DOMAIN bb
          IN /\ objs[i].id = key
             /\ objs[i].name = attr[i][2]
             /\ objs[i].bbox # None <=> inB
             /\ inB => objs[i].bbox = Some(bb[key.text])
    /\ \A id \in DOMAIN bb :
          (\A i \in 1..Len(attr) : attr[i][1] # [int |-> FALSE, text |-> id])
             => \A i \in 1..Len(objs) : objs[i].id # [int |-> FALSE, text |-> id]

\* C4: the four fields assigned from a non-empty mapping N and extractor
\* output B, and every state written from them, hold exactly the keys of N,
\* each with its name, with the box B[key] if and only if key is in B, no
\* identifier of B that N lacks, and a count equal to the number of keys.
C4_MergePolicy ==
    /\ merged_from.attr # Empty =>
          MergePolicy(merged_from.attr, BBoxesOf(merged_from), objects, object_count)
    /\ published_src.attr # Empty =>
          MergePolicy(published_src.attr, BBoxesOf(published_src),
                      published.objects, published.native_value)

C4_Witness ==
    /\ published_src.attr = << <<StrKey(7), Gizmo>> >>
    /\ published_src.bytes = Some(PlateA)
    /\ DOMAIN BBoxesOf(published_src) = {<<"7">>, <<"9">>}
    /\ published.objects = <<[id |-> StrKey(7), name |-> Gizmo, bbox |-> Some(<<1, 1, 2, 2>>)]>>
    /\ published.native_value = 1

Count(ch, text) == Cardinality({ i \in 1..Len(text) : text[i] = ch })

RECURSIVE Sum(_, _)
Sum(f, n) == IF n = 0 THEN 0 ELSE Sum(f, n - 1) + f[n]

\* One record of the format: id:name:min_x,min_y,max_x,max_y or id:name:
FormatRecord(obj) ==
    IF obj.bbox # None
    THEN obj.id.text \o <<":">> \o obj.name \o <<":">> \o
         Str(obj.bbox[1][1]) \o <<",">> \o Str(obj.bbox[1][2]) \o <<",">> \o
         Str(obj.bbox[1][3]) \o <<",">> \o Str(obj.bbox[1][4])
    ELSE obj.id.text \o <<":">> \o obj.name \o <<":">>

RECURSIVE FormatFrom(_, _)
FormatFrom(objs, i) ==
    IF i > Len(objs) THEN Empty
    ELSE IF i = Len(objs) THEN FormatRecord(objs[i])
    ELSE FormatRecord(objs[i]) \o <<"|">> \o FormatFrom(objs, i + 1)

SerializationFormat(st) ==
    /\ st.objects = Empty => st.bbox_data = Empty
    /\ st.bbox_data = FormatFrom(st.objects, 1)

\* C5 as amended: bbox_data is the records in iteration order joined by "|",
\* each id:name:min_x,min_y,max_x,max_y or id:name:, empty for an empty map;
\* the number of "|" in it is object_count - 1 plus the number of "|" inside
\* the ids and names.
C5_Serialization ==
    /\ SerializationFormat(published)
    /\ published.objects # Empty =>
          Count("|", published.bbox_data) =
             (published.native_value - 1)
             + Sum([i \in 1..Len(published.objects) |->
                       Count("|", published.objects[i].id.text)
                       + Count("|", published.objects[i].name)],
                   Len(published.objects))

\* C5 as claimed: the same format, and the number of "|"-separated records
\* equals object_count whenever objects is non-empty.
C5_RecordCount ==
    /\ SerializationFormat(published)
    /\ published.objects # Empty =>
          Count("|", published.bbox_data) + 1 = published.native_value

C5_Witness ==
    /\ published.native_value = 2
    /\ published.bbox_data =
          <<"7", ":", "N", "u", "t", ":", "|",
            "9", ":", "A", "|", "B", ":", "0", ",", "0", ",", "1", ",", "1">>

ResetState ==
    [native_value |-> 0, image_width |-> 0, image_height |-> 0,
     objects |-> Empty, bbox_data |-> Empty]

\* C6: a pass with an empty mapping leaves object_count = 0, objects = {},
\* image_width = image_height = 0, written to the host, whatever the state
\* before; it starts no fetch and leaves the slot alone; on a state that is
\* already the reset state it changes nothing.
C6_EmptyInput ==
    [][\A p \in Passes : PassEmpty(p) =>
          /\ object_count' = 0 /\ objects' = Empty
          /\ image_width' = 0 /\ image_height' = 0
          /\ published' = ResetState
          /\ pc'[p] = "done" /\ image_bytes' = image_bytes
          /\ jpeg_bytes' = jpeg_bytes /\ jpeg_updated' = jpeg_updated
          /\ (published = ResetState /\ object_count = 0 /\ objects = Empty
              /\ image_width = 0 /\ image_height = 0)
                => (sensor_vars' = sensor_vars /\ published' = published
                    /\ sensor_events' = sensor_events)]_vars

C6_Witness ==
    /\ merged_from = Source(2, Empty, None)
    /\ published_src = Source(2, Empty, None)
    /\ jpeg_bytes # None
    /\ published = ResetState
    /\ object_count = 0 /\ objects = Empty /\ image_width = 0 /\ image_height = 0

\* C7: a pass that fails to get the pick image, or whose analysis raises,
\* leaves object_count, objects, image_width, image_height, the slot and the
\* written state as they were, and fires no state change.
C7_FailureKeepsState ==
    [][\A p \in Passes :
          ((\E attr \in NameMappings : PassNoEntity(p, attr))
              \/ FetchNone(p) \/ ComputeRaise(p)) =>
          /\ sensor_vars' = sensor_vars
          /\ jpeg_bytes' = jpeg_bytes /\ jpeg_updated' = jpeg_updated
          /\ published' = published
          /\ sensor_events' = sensor_events]_vars

C7_Witness ==
    /\ pc[1] = "done" /\ pc[2] = "failed"
    /\ merged_from.pass = 1
    /\ object_count = 1 /\ image_width = 3
    /\ published.native_value = 1
    /\ jpeg_bytes # None

\* C9: the two fields of the slot always come from the same write, and the
\* timestamp the image entity holds, also at the moment a consumer is served
\* jpeg_bytes, is never of a later write than the bytes.
C9_SlotAtomicity ==
    /\ bytes_write = stamp_write
    /\ jpeg_bytes = None <=> jpeg_updated = None
    /\ held_write <= bytes_write
    /\ served.held <= served.write

C9_Witness ==
    /\ served = [write |-> 2, held |-> 1]
    /\ last_updated # None

\* C10: a mapping entry, keyed by a decimal string or by an integer, whose
\* identifier has a box in the extractor's output is merged with that box.
C10_EitherKeyType ==
    merged_from.attr # Empty =>
        \A i \in 1..Len(merged_from.attr) :
            LET key == merged_from.attr[i][1]
                bb == BBoxesOf(merged_from)
            IN key.text \in DOMAIN bb => objects[i].bbox = Some(bb[key.text])

\* C11: two visited pixels with alpha # 0 have the same identifier exactly
\* when their (R, G, B) are equal, wherever they are and whatever their
\* alpha, and the colour cache returns for each the identifier the packing
\* rule gives.
C11_InjectiveOnColour ==
    \A c1, c2 \in DOMAIN image.px :
        LET p1 == image.px[c1]
            p2 == image.px[c2]
        IN (Scanned(c1) /\ Scanned(c2) /\ Unpacks(p1) /\ Unpacks(p2)
            /\ p1[4] # 0 /\ p2[4] # 0) =>
              /\ seen_colors[p1] = seen_colors[p2]
                    <=> <<p1[1], p1[2], p1[3]>> = <<p2[1], p2[2], p2[3]>>
              /\ IdentifyId(seen_colors, p1) = PackBGR(p1)
              /\ ParseDigits(IdentifyId(seen_colors, p1), 10)
                    = p1[3] * 65536 + p1[2] * 256 + p1[1]

C11_Witness ==
    /\ scan_pc = "done"
    /\ image.width = 2 /\ image.height = 1
    /\ image.px[<<0, 0>>] = <<7, 0, 0, 255>>
    /\ image.px[<<1, 0>>] = <<7, 0, 0, 128>>
    /\ result.bboxes = (<<"7">> :> <<0, 0, 1, 0>>)

C13_Determinism ==
    scan_pc = "done" =>
        /\ image \in DOMAIN returned => result = returned[image]
        /\ result = compute_bounding_boxes(image)

C13_Witness ==
    /\ scan_pc = "done"
    /\ calls = 3
    /\ image \in DOMAIN returned
    /\ \E other \in DOMAIN returned :
          /\ other # image
          /\ DOMAIN returned[other].bboxes # DOMAIN result.bboxes

\* C14: once the passes of all the signals have completed, each having stored
\* its JPEG, the four fields and the written state come from the pass of
\* the last signal, and the slot's jpeg_bytes is the JPEG of the image these
\* were merged from.
C14_NoStaleResults ==
    ((\A p \in Passes : pc[p] = "done") /\ writes = MaxPasses) =>
        /\ merged_from.pass = MaxPasses
        /\ published_src.pass = MaxPasses
        /\ jpeg_bytes = Some(convert_to_jpeg(merged_from.bytes[1], DefaultQuality))

\* C15: the sensor subscribes to the printable-objects entity only with both
\* entity ids resolved and at most once; the global state_changed listener
\* is registered only while the sensor is added and unresolved, and is gone
\* after the step in which resolution succeeds or the entity is removed; no
\* pass is started while unresolved; a resolved sensor stays resolved.
C15_OneWayResolution ==
    /\ [](/\ subscriptions <= 1
          /\ tracking <= subscriptions
          /\ subscriptions > 0 => Resolved
          /\ tasks > 0 => Resolved
          /\ unsub_any_state => ~Resolved /\ lifecycle = "added")
    /\ [][/\ Resolved => Resolved'
          /\ subscriptions' # subscriptions => Resolved' /\ ~unsub_any_state'
          /\ (~Resolved /\ Resolved') => ~unsub_any_state' /\ subscriptions' = 1
          /\ lifecycle' = "removed" => ~unsub_any_state' /\ tracking' = 0]_vars

C15_Witness ==
    /\ lifecycle = "removed"
    /\ Resolved
    /\ subscriptions = 1
    /\ tasks >= 2
    /\ events >= 3

\* C19: a sensor that is added and unresolved has its listener registered,
\* and a state_changed event delivered to it when each upstream entity is in
\* the registry or was found by an earlier attempt leaves it resolved and
\* subscribed, the listener cancelled.
C19_ResolutionLiveness ==
    /\ []((lifecycle = "added" /\ ~Resolved) => unsub_any_state)
    /\ [][\A has_objects \in BOOLEAN :
            (/\ OnAnyStateChanged(has_objects)
             /\ "printable_objects" \in ent_reg \/ printable_objects_entity_id # None
             /\ "pick_image" \in ent_reg \/ pick_image_entity_id # None)
            => (Resolved' /\ tracking' = 1 /\ subscriptions' = 1
                /\ ~unsub_any_state')]_vars

C19_Witness ==
    /\ lifecycle = "added"
    /\ Resolved
    /\ tracking = 1
    /\ events = 2
    /\ tasks = 0
    /\ "printable_objects" \notin ent_reg

\* C16: once both entities are added, every pass has ended and no event of
\* the sensor is still to be delivered, the image entity's
\* image_last_updated is the slot's jpeg_updated, whichever entity was added
\* first.
C16_ImageReflectsSlot ==
    (/\ sensor_added
     /\ image_life # "new"
     /\ \A p \in Passes : pc[p] \in {"done", "failed"}
     /\ image_life = "listening" => sensor_events = 0
     /\ jpeg_updated # None)
        => last_updated = jpeg_updated

\* C17: when the JPEG conversion of a pass raises, that step leaves both
\* fields of the slot as they were, writes the state of the four fields as
\* last merged (this pass's merge when no other pass assigned them since),
\* and ends the pass: no retry, no error to the caller.
C17_ConversionFailureContained ==
    [][\A p \in Passes : JpegRaise(p) =>
          /\ jpeg_bytes' = jpeg_bytes /\ jpeg_updated' = jpeg_updated
          /\ writes' = writes
          /\ bytes_write' = bytes_write /\ stamp_write' = stamp_write
          /\ sensor_vars' = sensor_vars
          /\ published' = StateOf(object_count, objects, image_width, image_height)
          /\ published_src' = merged_from
          /\ merged_from.pass = p =>
                published'.objects = Merge(objects_attr[p], BBoxesOf(merged_from))
          /\ pc'[p] = "done"]_vars

C17_Witness ==
    /\ \A p \in Passes : pc[p] = "done"
    /\ writes = 1
    /\ merged_from.pass = 2
    /\ published_src = merged_from
    /\ merged_from.bytes = Some(PlateB)
    /\ published.image_width = 1
    /\ jpeg_bytes = Some(convert_to_jpeg(PlateA, DefaultQuality))

\* C20: in every state, and in every state written to the host, object_count
\* is the number of entries of objects; the dimensions are 0 when the four
\* fields were last assigned by the empty-mapping reset; and the four fields
\* always come from one assignment: the merge and the dimensions of one and
\* the same image.
C20_FieldsTogether ==
    /\ object_count = Len(objects)
    /\ published.native_value = Len(published.objects)
    /\ merged_from.attr = Empty =>
          object_count = 0 /\ objects = Empty /\ image_width = 0 /\ image_height = 0
    /\ published_src.attr = Empty => published = ResetState
    /\ merged_from.attr # Empty =>
          /\ objects = Merge(merged_from.attr, BBoxesOf(merged_from))
          /\ image_width = merged_from.bytes[1].width
          /\ image_height = merged_from.bytes[1].height
    /\ published_src.attr # Empty =>
          /\ published.objects = Merge(published_src.attr, BBoxesOf(published_src))
          /\ published.image_width = published_src.bytes[1].width
          /\ published.image_height = published_src.bytes[1].height

C20_Witness ==
    /\ \A p \in Passes : pc[p] = "done"
    /\ merged_from = Source(2, Empty, None)
    /\ published_src = merged_from
    /\ writes = 1
    /\ published = ResetState
    /\ jpeg_bytes = Some(convert_to_jpeg(PlateA, DefaultQuality))

\* C18: when every pixel has been visited, in whatever order, the boxes are
\* those the row-major scan of compute_bounding_boxes gives; on the way,
\* each box contains the visited pixels of its colour and no other row or
\* column.
C18_OrderIndependence ==
    scan_pc = "visit" =>
        /\ visited = DOMAIN image.px =>
              bboxes = compute_bounding_boxes(image).bboxes
        /\ \A id \in DOMAIN bboxes :
              LET same == { c \in visited :
                              ~IsTransparent(image.px[c])
                              /\ PackBGR(image.px[c]) = id }
              IN /\ same # {}
                 /\ bboxes[id] = <<Min({ c[1] : c \in same }), Min({ c[2] : c \in same }),
                                   Max({ c[1] : c \in same }), Max({ c[2] : c \in same })>>

C18_Witness ==
    /\ scan_pc = "visit"
    /\ image.width = 2 /\ image.height = 2
    /\ visited = DOMAIN image.px
    /\ image.px[<<0, 0>>] = <<7, 0, 0, 255>>
    /\ image.px[<<1, 1>>] = <<7, 0, 0, 255>>
    /\ image.px[<<1, 0>>] = <<7, 0, 0, 0>>
    /\ image.px[<<0, 1>>] = <<9, 0, 0, 255>>
    /\ bboxes = (<<"7">> :> <<0, 0, 1, 1>>) @@ (<<"9">> :> <<0, 1, 0, 1>>)

====
